---- MODULE Spec2Model ----
(***************************************************************************)
(* Model of resource-fetcher's download engine:                            *)
(*   download_song  (cli/main.py 104-259): fetch with retry and failover   *)
(*   download_album (cli/main.py 343-471): the batch loop around it        *)
(*   renumber_directory (cli/main.py 262-340): prefixes for a directory    *)
(*   CLIWrapper (gui/core/cli_wrapper.py): the thread around the CLI       *)
(*   OutputParser (gui/core/output_parser.py) reading the summary          *)
(* and of the filename helpers of resource_fetcher_core/utils/http.py.     *)
(*                                                                         *)
(* A file name is a sequence of one-character strings (the extension       *)
(* ".mp3" is kept as one element).  The file system is a function from     *)
(* the names of the files that exist in output_dir to their content, a     *)
(* sequence of bytes.  A byte served by candidate URL number i is the      *)
(* number i+1; a file that was there before the run holds the byte 0.      *)
(***************************************************************************)
EXTENDS Integers, Sequences, FiniteSets, TLC

\* ------------------------------------------------------------------ bounds
MaxRetries == 3
MaxBackups == 1
MaxBody == 1
MaxSongs == 2
MaxPlain == 1
MaxRuns == 2
MaxLen == 3
MaxChunk == 3
MaxChunks == 3
MaxLines == 2
MaxCount == 2

\* --------------------------------------------------------------- constants
None == <<<<"None", <<>>>>>>
NoPath == <<"<no path>">>
OldContent == <<0>>
Ext == ".mp3"
DI == "<U+7B2C>"
SHOU == "<U+9996>"

Digits == {"0", "1", "2", "3", "4", "5", "6", "7", "8", "9"}
DigitVal(c) ==
  CASE c = "0" -> 0 [] c = "1" -> 1 [] c = "2" -> 2 [] c = "3" -> 3 [] c = "4" -> 4
    [] c = "5" -> 5 [] c = "6" -> 6 [] c = "7" -> 7 [] c = "8" -> 8 [] c = "9" -> 9
DigitChr(d) ==
  CASE d = 0 -> "0" [] d = 1 -> "1" [] d = 2 -> "2" [] d = 3 -> "3" [] d = 4 -> "4"
    [] d = 5 -> "5" [] d = 6 -> "6" [] d = 7 -> "7" [] d = 8 -> "8" [] d = 9 -> "9"

\* ------------------------------------------------------------ http helpers
\* the character class without the bar
IllegalChars_without_bar == {"\\", "/", ":", "*", "?", "\"", "<", ">"}
IllegalChars == {"\\", "/", ":", "*", "?", "\"", "<", ">", "|"}
Whitespace == {" ", "\t", "\n"}

RECURSIVE lstrip(_)
lstrip(s) == IF s # <<>> /\ Head(s) \in Whitespace THEN lstrip(Tail(s)) ELSE s

RECURSIVE rstrip(_)
rstrip(s) ==
  IF s # <<>> /\ s[Len(s)] \in Whitespace THEN rstrip(SubSeq(s, 1, Len(s) - 1)) ELSE s

\* strip before the substitution, a blank as the replacement
sanitize_filename_strip_first(filename) ==
  LET stripped == lstrip(rstrip(filename))
  IN  [i \in 1..Len(stripped) |-> IF stripped[i] \in IllegalChars THEN " " ELSE stripped[i]]
\* re.sub(illegal_chars, "_", filename).strip()
sanitize_filename(filename) ==
  LET clean_name == [i \in 1..Len(filename) |->
                       IF filename[i] \in IllegalChars THEN "_" ELSE filename[i]]
  IN  lstrip(rstrip(clean_name))

\* The length of the run of digits of s that starts at position i.
RECURSIVE DigitRun(_, _)
DigitRun(s, i) == IF i <= Len(s) /\ s[i] \in Digits THEN 1 + DigitRun(s, i + 1) ELSE 0

\* re.search(r"<DI>(\d+)<SHOU>", s) matches at i: the marker token DI (U+7B2C),
\* one or more digits, the suffix token SHOU (U+9996).
MarkerAt(s, i) ==
  /\ s[i] = DI
  /\ DigitRun(s, i + 1) >= 1
  /\ i + 1 + DigitRun(s, i + 1) <= Len(s)
  /\ s[i + 1 + DigitRun(s, i + 1)] = SHOU

MarkerPositions(s) == {i \in 1..Len(s) : MarkerAt(s, i)}

Min(S) == CHOOSE x \in S : \A y \in S : x <= y

RECURSIVE ParseInt(_)
ParseInt(ds) ==
  IF ds = <<>> THEN 0 ELSE 10 * ParseInt(SubSeq(ds, 1, Len(ds) - 1)) + DigitVal(ds[Len(ds)])

\* int(match.group(1)) of the leftmost match
MarkerNumber(s) ==
  LET i == Min(MarkerPositions(s))
  IN  ParseInt(SubSeq(s, i + 1, i + DigitRun(s, i + 1)))

RECURSIVE Decimal(_)
Decimal(n) == IF n < 10 THEN <<DigitChr(n)>> ELSE Decimal(n \div 10) \o <<DigitChr(n % 10)>>

RECURSIVE ZeroPad(_, _)
ZeroPad(ds, width) == IF Len(ds) >= width THEN ds ELSE ZeroPad(<<"0">> \o ds, width)

\* total_songs < 10: the largest total with a padding of one digit
OneDigitFiles == 9
\* padding without the third width
padding_two_widths(total_songs) == IF total_songs < 10 THEN 1 ELSE 2
padding(total_songs) == IF total_songs < 10 THEN 1 ELSE IF total_songs < 100 THEN 2 ELSE 3

\* a variant that leaves a name that begins with digits and "_" as it is
add_track_number_prefix_once(filename, track_number, total_songs) ==
  IF DigitRun(filename, 1) >= 1 /\ DigitRun(filename, 1) < Len(filename)
     /\ filename[DigitRun(filename, 1) + 1] = "_"
    THEN filename
    ELSE LET n == IF track_number = <<>> THEN MarkerNumber(filename) ELSE track_number[1]
         IN  ZeroPad(Decimal(n), padding(total_songs)) \o <<"_">> \o filename
\* f"{track_number:0{padding}d}_{filename}"; track_number = None reads the marker
\* (track_number is <<>> for None and <<n>> for the number n)
add_track_number_prefix(filename, track_number, total_songs) ==
  IF track_number = <<>> /\ MarkerPositions(filename) = {}
    THEN filename
    ELSE LET n == IF track_number = <<>> THEN MarkerNumber(filename) ELSE track_number[1]
         IN  ZeroPad(Decimal(n), padding(total_songs)) \o <<"_">> \o filename

\* header_name is the file name found in Content-Disposition, <<>> when none is
extract_filename_from_headers(header_name, song_id, song_title) ==
  IF song_title # <<>> THEN sanitize_filename(song_title) \o <<Ext>>
  ELSE IF header_name # <<>> THEN header_name
  ELSE IF song_id # <<>> THEN song_id \o <<Ext>>
  ELSE <<"unknown", Ext>>

\* a percent escape and what unquote makes of it
Escaped == "%20"
\* UTF-8 bytes read as latin-1 (two characters), and the character they encode
Mojibake == "<U+00C3><U+00A9>"
EAcute == "<U+00E9>"

\* urllib.parse.unquote, applied when "%" is in the name
unquote(filename) ==
  [i \in 1..Len(filename) |-> IF filename[i] = Escaped THEN " " ELSE filename[i]]

\* filename.encode("latin-1").decode("utf-8"), the name as it is when either raises:
\* the marker tokens are no latin-1 characters, a lone e-acute is no UTF-8
fix_mojibake(filename) ==
  IF \E i \in 1..Len(filename) : filename[i] \in {DI, SHOU, EAcute} THEN filename
  ELSE [i \in 1..Len(filename) |-> IF filename[i] = Mojibake THEN EAcute ELSE filename[i]]

\* the RFC 5987 form tried before the quoted form
header_filename_encoded_first(headers) ==
  IF headers.encoded # <<>> THEN fix_mojibake(unquote(headers.encoded))
  ELSE IF headers.quoted # <<>> THEN fix_mojibake(unquote(headers.quoted))
  ELSE <<>>
\* lines 58-72: the name in Content-Disposition, <<>> when neither form matches;
\* headers.quoted is the match of filename="...", headers.encoded the match of
\* filename*=UTF-8''..., each <<>> when the form is absent
header_filename(headers) ==
  IF headers.quoted # <<>> THEN fix_mojibake(unquote(headers.quoted))
  ELSE IF headers.encoded # <<>> THEN fix_mojibake(unquote(headers.encoded))
  ELSE <<>>

\* ------------------------------------------------------------------- state
VARIABLES
  cfg,        \* the arguments of the running download_song call
  pc,         \* "idle", "entry", "loop", "done" (a result was returned), "raised"
  second,     \* TRUE once download_song is called again with the same arguments
  all_urls,   \* [url] + (backup_urls or [])
  url_idx,    \* index of the outer loop, 0-based as in the code
  attempt,    \* index of the inner loop, 0-based as in the code
  fs,         \* output_dir: file name -> content, for the files that exist
  fs0,        \* fs when the running call began
  reqs,       \* every requests.get of this call, in order: [u, a, transport_error]
  sleeps,     \* every time.sleep of this call: [u, a, secs]
  last,       \* the latest attempt of this call: how it ended, the output path it
              \* computed and, when it read the whole body, the declared and the
              \* received length
  result,     \* the DownloadResult returned
  prev,       \* the result of the first call, once a second one runs
  dir_exists, \* output_dir exists
  \* download_album
  apc,        \* "idle", "loop" (between songs), "song" (in download_song), "done"
  aargs,      \* the arguments of download_album
  album,      \* album.songs, as the adapter returned them
  songs,      \* album.songs[:limit]
  idx,        \* the loop index, 1-based as in the code
  progress,   \* DownloadProgress: [total, success, failed, skipped]
  events,     \* the progress markers emitted, in order
  calls,      \* the idx of every download_song call, in order
  delays,     \* the idx after which time.sleep(delay) ran, in order
  returned,   \* what download_album returned: "none" (not yet), "True", "False"
  outcomes,   \* the status of every result download_song returned to download_album
  exit_code,  \* main: <<>> while the process runs, <<c>> once it exited with status c
  \* renumber_directory
  rpc,            \* "idle", "loop", "done"
  dry_run,        \* the dry_run argument
  mp3_files,      \* sorted(directory.glob("*.mp3"))
  ridx,           \* position in mp3_files of the file the loop is at, from 1
  renamed_count,
  skipped_count,
  rename_errors,  \* the files whose rename raised, in order
  runs,           \* the number of renumber_directory calls begun on the directory
  \* the body of one attempt of download_song, chunk by chunk
  spc,             \* "idle", "stream", "end"
  has_callback,    \* progress_callback is given
  stream_total_size, \* total_size: int(response.headers.get("content-length", 0))
  chunks,          \* the lengths of the chunks iter_content has still to yield
  downloaded_size,
  last_progress,
  reported,        \* the arguments of the progress_callback calls, in order
  \* one call of a function of utils/http.py
  fn,    \* the function called
  arg,   \* its arguments
  ret,   \* what it returned
  fpc,   \* "idle", "returned"
  \* CLIWrapper: one execute_download call, its thread, one wait_for_completion call
  wargs,           \* the arguments of execute_download and whether cli_path exists
  xpc,             \* execute_download: "idle", "FileNotFoundError", "ValueError", "returned"
  tpc,             \* run_process: "none", "start", "reading", "except", "finally",
                   \* "exiting" (the finally block is over), "ended"
  current_thread,  \* "None" or "thread"
  current_process, \* "None" or "process"
  lines_left,      \* the lines the subprocess has still to print
  callbacks,       \* the callback invocations, in order: [cb, value]
  wpc,             \* wait_for_completion: "idle", "checked", "joining", "joined", "returned"
  wret,            \* what wait_for_completion returned
  timed_out,       \* join returned because the timeout elapsed, the thread still alive
  \* DownloadProgress.summary() and the OutputParser that reads it
  dp,              \* the DownloadProgress: total, success, failed, skipped
  elapsed,         \* time.time() - start_time, in seconds
  ppc,             \* "idle", "feeding"
  feed,            \* the lines not yet given to parse_line
  in_summary,      \* OutputParser._in_summary
  summary_data,    \* OutputParser._summary_data
  current_album,   \* OutputParser._current_album: <<>> for None, else <<song_count>>
  parsed           \* the return values of parse_line other than None, in order

albumvars == <<apc, aargs, album, songs, idx, progress, events, calls, delays, returned,
               outcomes, exit_code>>

renumvars == <<rpc, dry_run, mp3_files, ridx, renamed_count, skipped_count, rename_errors,
               runs>>

streamvars == <<spc, has_callback, stream_total_size, chunks, downloaded_size, last_progress,
                reported>>

purevars == <<fn, arg, ret, fpc>>
wrappervars == <<wargs, xpc, tpc, current_thread, current_process, lines_left, callbacks,
                 wpc, wret, timed_out>>
parservars == <<dp, elapsed, ppc, feed, in_summary, summary_data, current_album, parsed>>
guivars == <<wrappervars, parservars>>

vars == <<cfg, pc, second, all_urls, url_idx, attempt, fs, fs0, reqs, sleeps, last,
          result, prev, dir_exists, albumvars, renumvars, streamvars, purevars, guivars>>

SUCCESS == "success"
FAILED == "failed"
SKIPPED == "skipped"
PENDING == "pending"

NoResult == [status |-> PENDING, path |-> NoPath, size |-> 0, message |-> "none"]
NoAttempt == [kind |-> "none", u |-> 0, a |-> 0, path |-> NoPath,
              cl |-> [kind |-> "none", val |-> 0], n |-> 0]

\* ------------------------------------------------------------------ inputs
PrimaryUrl == <<"play.xiaoh.ai", <<"p">>>>
ExplicitBackupUrls == [i \in 1..MaxBackups |-> <<"mirror", <<DigitChr(i)>>>>]
\* IzanmeiAdapter.get_audio_bases(): the primary base first, then the backup bases
AudioBases == <<"play.xiaoh.ai", "backup.base">>

SongIds == {<<>>, <<"7">>}
SongTitles == {<<>>, <<DI, "2", SHOU, "?">>}
HeaderNames == {<<>>, <<"h", Ext>>}
\* the Content-Length header: absent, not a number, or a number
NoLength == [kind |-> "none", val |-> 0]
BadLength == [kind |-> "bad", val |-> 0]
ContentLengths == {NoLength, BadLength} \cup {[kind |-> "int", val |-> v] : v \in 0..MaxBody}

BackupChoices == {None} \cup {SubSeq(ExplicitBackupUrls, 1, k) : k \in 0..MaxBackups}

\* the file name download_song computes for a response (lines 168-177)
output_name(c, header_name) ==
  LET filename == sanitize_filename(
                    extract_filename_from_headers(header_name, c.song_id, c.song_title))
  IN  IF c.renumber THEN add_track_number_prefix(filename, <<>>, c.total_songs)
      ELSE filename

CandidateNames(c) == {output_name(c, h) : h \in HeaderNames}

Configs ==
  {c \in [url : {PrimaryUrl}, song_id : SongIds, song_title : SongTitles,
          retries : 0..MaxRetries, overwrite : BOOLEAN, renumber : BOOLEAN,
          total_songs : {1, 12}, backup_urls : BackupChoices] :
     /\ c.total_songs = (IF c.renumber THEN 12 ELSE 1)
     \* without a title no computed name holds a marker and renumber changes nothing
     /\ c.song_title = <<>> => ~c.renumber /\ c.backup_urls # None}

\* backup_domains = None
NoDomains == <<"None">>
NoProgress == [total |-> 0, success |-> 0, failed |-> 0, skipped |-> 0]
NoArgs == [limit |-> <<>>, overwrite |-> FALSE, retries |-> 0, renumber |-> FALSE,
           backup_domains |-> NoDomains]

\* renumber_directory is not running
RenumberIdle ==
  /\ rpc = "idle"
  /\ dry_run = FALSE
  /\ mp3_files = <<>>
  /\ ridx = 0
  /\ renamed_count = 0
  /\ skipped_count = 0
  /\ rename_errors = <<>>
  /\ runs = 0

\* no attempt body is being streamed
StreamIdle ==
  /\ spc = "idle"
  /\ has_callback = FALSE
  /\ stream_total_size = 0
  /\ chunks = <<>>
  /\ downloaded_size = 0
  /\ last_progress = 0
  /\ reported = <<>>

\* no function of utils/http.py is being called on its own
PureIdle ==
  /\ fn = "none"
  /\ arg = <<>>
  /\ ret = <<>>
  /\ fpc = "idle"

\* download_album is not running
\* no execute_download call was made, nobody waits
NoWrapperArgs == [cli_exists |-> FALSE, url |-> <<>>, progress_callback |-> FALSE,
                  complete_callback |-> FALSE]
WrapperIdle ==
  /\ wargs = NoWrapperArgs
  /\ xpc = "idle"
  /\ tpc = "none"
  /\ current_thread = "None"
  /\ current_process = "None"
  /\ lines_left = 0
  /\ callbacks = <<>>
  /\ wpc = "idle"
  /\ wret = "none"
  /\ timed_out = FALSE

\* a parser after __init__ or reset(), nothing to read
NoSummaryData == [k \in {} |-> 0]
ParserReset ==
  /\ in_summary = FALSE
  /\ summary_data = NoSummaryData
  /\ current_album = <<>>
ParserIdle ==
  /\ dp = NoProgress
  /\ elapsed = 0
  /\ ppc = "idle"
  /\ feed = <<>>
  /\ ParserReset
  /\ parsed = <<>>

GuiIdle == WrapperIdle /\ ParserIdle

AlbumIdle ==
  /\ apc = "idle"
  /\ aargs = NoArgs
  /\ album = <<>>
  /\ songs = <<>>
  /\ idx = 0
  /\ progress = NoProgress
  /\ events = <<>>
  /\ calls = <<>>
  /\ delays = <<>>
  /\ returned = "none"
  /\ outcomes = <<>>
  /\ exit_code = <<>>

Init ==
  /\ GuiIdle
  /\ cfg \in Configs
  /\ \E present \in SUBSET CandidateNames(cfg) : fs = [p \in present |-> OldContent]
  /\ dir_exists \in BOOLEAN
  /\ DOMAIN fs # {} => dir_exists
  /\ AlbumIdle
  /\ RenumberIdle
  /\ StreamIdle
  /\ PureIdle
  /\ fs0 = fs
  /\ pc = "idle"
  /\ second = FALSE
  /\ all_urls = <<>>
  /\ url_idx = 0
  /\ attempt = 0
  /\ reqs = <<>>
  /\ sleeps = <<>>
  /\ last = NoAttempt
  /\ result = NoResult
  /\ prev = NoResult

\* ----------------------------------------------------------- download_song
\* _generate_backup_urls: f"{base}/{song_id}.mp3" for base in audio_bases[1:]
generate_backup_urls(song_id) ==
  [i \in 1..(Len(AudioBases) - 1) |-> <<AudioBases[i + 1], song_id>>]

\* lines 139-144
candidate_urls(c) ==
  LET backup_urls == IF c.backup_urls = None /\ c.song_id # <<>>
                       THEN generate_backup_urls(c.song_id)
                       ELSE c.backup_urls
  IN  <<c.url>> \o (IF backup_urls = None THEN <<>> ELSE backup_urls)

\* The first call of the run.
Call ==
  /\ pc = "idle"
  /\ pc' = "entry"
  /\ fs0' = fs
  /\ UNCHANGED <<albumvars, guivars, renumvars, streamvars, purevars, dir_exists, cfg, second, all_urls, url_idx, attempt, fs, reqs, sleeps, last,
                 result, prev>>

\* After a successful call, a second call with the same arguments in the directory
\* the first one left (tests/integration/test_download_flow.py 114-138).
CallAgain ==
  /\ pc = "done"
  /\ result.status = SUCCESS
  /\ ~second
  /\ second' = TRUE
  /\ prev' = result
  /\ pc' = "entry"
  /\ fs0' = fs
  /\ all_urls' = <<>>
  /\ url_idx' = 0
  /\ attempt' = 0
  /\ reqs' = <<>>
  /\ sleeps' = <<>>
  /\ last' = NoAttempt
  /\ result' = NoResult
  /\ UNCHANGED <<albumvars, guivars, renumvars, streamvars, purevars, dir_exists, cfg, fs>>

\* lines 136-144: output_dir.mkdir(parents=True, exist_ok=True) succeeds
Enter ==
  /\ pc = "entry"
  /\ all_urls' = candidate_urls(cfg)
  /\ url_idx' = 0
  /\ attempt' = 0
  /\ pc' = "loop"
  /\ dir_exists' = TRUE
  /\ UNCHANGED <<albumvars, guivars, renumvars, streamvars, purevars, cfg, second, fs, fs0, reqs, sleeps, last, result, prev>>

\* line 137 raises OSError (output_dir is not there and cannot be created, or is
\* a file): outside every try.  With exist_ok an existing directory never raises.
EnterMkdirRaises ==
  /\ pc = "entry"
  /\ ~dir_exists
  /\ pc' = "raised"
  /\ UNCHANGED <<albumvars, guivars, renumvars, streamvars, purevars, dir_exists, cfg, second, all_urls, url_idx, attempt, fs, fs0, reqs, sleeps, last,
                 result, prev>>

InAttempt == pc = "loop" /\ url_idx < Len(all_urls) /\ attempt < cfg.retries

\* the body the candidate URL number u serves: n bytes
Body(u, n) == [i \in 1..n |-> u + 1]

\* int(response.headers.get("content-length", 0)), line 189
total_size(cl) == IF cl.kind = "int" THEN cl.val ELSE 0

is_last_attempt_early(a, retries) == a >= retries - 2
is_last_attempt(a, retries) == a = retries - 1
is_last_url(u, urls) == u = Len(urls) - 1
wait_time_linear(a) == 2 * a
wait_time(a) == 2 ^ a
skip_existing_flag_inverted(exists, overwrite) == exists /\ overwrite
skip_existing_check_inverted(exists, overwrite) == ~exists /\ ~overwrite
skip_existing(exists, overwrite) == exists /\ ~overwrite
size_mismatch_only_longer(total, downloaded) == total > 0 /\ downloaded > total
size_mismatch(total, downloaded) == total > 0 /\ downloaded # total

Return(status, path, size, message) ==
  /\ result' = [status |-> status, path |-> path, size |-> size, message |-> message]
  /\ pc' = "done"

\* lines 222-250: except requests.exceptions.RequestException
RequestExceptionHandler ==
  IF ~is_last_attempt(attempt, cfg.retries)
    THEN /\ sleeps' = Append(sleeps, [u |-> url_idx, a |-> attempt, secs |-> wait_time(attempt)])
         /\ attempt' = attempt + 1
         /\ UNCHANGED <<url_idx, pc, result>>
    ELSE IF ~is_last_url(url_idx, all_urls)
      THEN /\ url_idx' = url_idx + 1
           /\ attempt' = 0
           /\ UNCHANGED <<sleeps, pc, result>>
      ELSE /\ Return(FAILED, NoPath, 0, "Download failed")
           /\ UNCHANGED <<sleeps, url_idx, attempt>>

ExceptionHandler_retrying == RequestExceptionHandler
\* lines 252-257: except Exception
ExceptionHandler ==
  /\ Return(FAILED, NoPath, 0, "Error")
  /\ UNCHANGED <<sleeps, url_idx, attempt>>

\* History: the request of this attempt and how the attempt ended.
Note(kind, path, cl, n) ==
  /\ reqs' = Append(reqs, [u |-> url_idx, a |-> attempt,
                           transport_error |-> kind \in {"refused", "cut"}])
  /\ last' = [kind |-> kind, u |-> url_idx, a |-> attempt, path |-> path,
              cl |-> cl, n |-> n]

Write(path, content) == fs' = [p \in DOMAIN fs \cup {path} |-> IF p = path THEN content ELSE fs[p]]
Unlink(path) == fs' = [p \in DOMAIN fs \ {path} |-> fs[p]]

\* lines 158-159: requests.get or raise_for_status raises a RequestException
AttemptRequestFails ==
  /\ InAttempt
  /\ Note("refused", NoPath, NoLength, 0)
  /\ RequestExceptionHandler
  /\ UNCHANGED <<albumvars, guivars, renumvars, streamvars, purevars, dir_exists, cfg, second, all_urls, fs, fs0, prev>>

\* lines 158-186: the response arrives, the output file exists, overwrite is off
AttemptSkipped ==
  /\ InAttempt
  /\ \E h \in HeaderNames :
       LET output_path == output_name(cfg, h) IN
       /\ skip_existing(output_path \in DOMAIN fs, cfg.overwrite)
       /\ Note("skipped", output_path, NoLength, 0)
       /\ Return(SKIPPED, output_path, 0, "File already exists")
  /\ UNCHANGED <<albumvars, guivars, renumvars, streamvars, purevars, dir_exists, cfg, second, all_urls, url_idx, attempt, fs, fs0, sleeps, prev>>

\* line 189: int() of a malformed Content-Length raises ValueError
AttemptBadLength ==
  /\ InAttempt
  /\ \E h \in HeaderNames :
       LET output_path == output_name(cfg, h) IN
       /\ ~skip_existing(output_path \in DOMAIN fs, cfg.overwrite)
       /\ Note("bad_length", output_path, BadLength, 0)
       /\ ExceptionHandler
  /\ UNCHANGED <<albumvars, guivars, renumvars, streamvars, purevars, dir_exists, cfg, second, all_urls, fs, fs0, prev>>

\* line 193: open(output_path, "wb") raises OSError, the directory is unchanged
AttemptOpenFails ==
  /\ InAttempt
  /\ \E h \in HeaderNames :
       LET output_path == output_name(cfg, h) IN
       /\ ~skip_existing(output_path \in DOMAIN fs, cfg.overwrite)
       /\ Note("open_failed", output_path, NoLength, 0)
       /\ ExceptionHandler
  /\ UNCHANGED <<albumvars, guivars, renumvars, streamvars, purevars, dir_exists, cfg, second, all_urls, fs, fs0, prev>>

\* lines 193-197: n bytes are written, then iter_content raises a RequestException
AttemptStreamCut ==
  /\ InAttempt
  /\ \E h \in HeaderNames, n \in 0..MaxBody :
       LET output_path == output_name(cfg, h) IN
       /\ ~skip_existing(output_path \in DOMAIN fs, cfg.overwrite)
       /\ Note("cut", output_path, NoLength, 0)
       /\ Write(output_path, Body(url_idx, n))
       /\ RequestExceptionHandler
  /\ UNCHANGED <<albumvars, guivars, renumvars, streamvars, purevars, dir_exists, cfg, second, all_urls, fs0, prev>>

\* lines 193-197: n bytes are written, then f.write raises OSError
AttemptWriteFails ==
  /\ InAttempt
  /\ \E h \in HeaderNames, n \in 0..MaxBody :
       LET output_path == output_name(cfg, h) IN
       /\ ~skip_existing(output_path \in DOMAIN fs, cfg.overwrite)
       /\ Note("write_failed", output_path, NoLength, n)
       /\ Write(output_path, Body(url_idx, n))
       /\ ExceptionHandler
  /\ UNCHANGED <<albumvars, guivars, renumvars, streamvars, purevars, dir_exists, cfg, second, all_urls, fs0, prev>>

\* lines 193-209: the stream ends after n bytes, which is not the declared length
AttemptIncomplete ==
  /\ InAttempt
  /\ \E h \in HeaderNames, cl \in ContentLengths \ {BadLength}, n \in 0..MaxBody :
       LET output_path == output_name(cfg, h) IN
       /\ ~skip_existing(output_path \in DOMAIN fs, cfg.overwrite)
       /\ size_mismatch(total_size(cl), n)
       /\ Note("incomplete", output_path, cl, n)
       /\ Unlink(output_path)
       /\ ExceptionHandler
  /\ UNCHANGED <<albumvars, guivars, renumvars, streamvars, purevars, dir_exists, cfg, second, all_urls, fs0, prev>>

\* lines 193-220: the stream ends after n bytes and the size check passes
AttemptSucceeds ==
  /\ InAttempt
  /\ \E h \in HeaderNames, cl \in ContentLengths \ {BadLength}, n \in 0..MaxBody :
       LET output_path == output_name(cfg, h) IN
       /\ ~skip_existing(output_path \in DOMAIN fs, cfg.overwrite)
       /\ ~size_mismatch(total_size(cl), n)
       /\ Note("complete", output_path, cl, n)
       /\ Write(output_path, Body(url_idx, n))
       /\ Return(SUCCESS, output_path, n, "Download successful")
  /\ UNCHANGED <<albumvars, guivars, renumvars, streamvars, purevars, dir_exists, cfg, second, all_urls, url_idx, attempt, fs0, sleeps, prev>>

\* line 150: range(retries) is exhausted without a break or a return
InnerLoopEnds ==
  /\ pc = "loop"
  /\ url_idx < Len(all_urls)
  /\ attempt >= cfg.retries
  /\ url_idx' = url_idx + 1
  /\ attempt' = 0
  /\ UNCHANGED <<albumvars, guivars, renumvars, streamvars, purevars, dir_exists, cfg, pc, second, all_urls, fs, fs0, reqs, sleeps, last, result, prev>>

\* line 259: the outer loop is exhausted
ReturnUnknownError ==
  /\ pc = "loop"
  /\ url_idx >= Len(all_urls)
  /\ Return(FAILED, NoPath, 0, "Unknown error")
  /\ UNCHANGED <<albumvars, guivars, renumvars, streamvars, purevars, dir_exists, cfg, second, all_urls, url_idx, attempt, fs, fs0, reqs, sleeps, last, prev>>

Attempt ==
  \/ AttemptRequestFails
  \/ AttemptSkipped
  \/ AttemptBadLength
  \/ AttemptOpenFails
  \/ AttemptStreamCut
  \/ AttemptWriteFails
  \/ AttemptIncomplete
  \/ AttemptSucceeds

Next ==
  \/ Call
  \/ Enter
  \/ EnterMkdirRaises
  \/ Attempt
  \/ InnerLoopEnds
  \/ ReturnUnknownError

Spec == Init /\ [][Next]_vars

\* test_skip_existing_files: overwrite is off and a successful call is repeated
InitAgain == Init /\ ~cfg.overwrite

NextAgain ==
  \/ Next
  \/ CallAgain

SpecAgain == InitAgain /\ [][NextAgain]_vars

\* ---------------------------------------------------------- download_album
\* the songs an adapter builds (izanmei.py 106-119): id, marker title, audio URL
AlbumSong(i) ==
  [id |-> <<DigitChr(i)>>, title |-> <<DI, DigitChr(i), SHOU, "x">>,
   url |-> <<"play.xiaoh.ai", <<DigitChr(i)>>>>]

Albums == {[i \in 1..n |-> AlbumSong(i)] : n \in 0..MaxSongs}

\* a page that lists the first title again under other ids: the adapter takes id and
\* title from the page as they are (izanmei.py 74-80, 106-119)
SameTitleSong(i) == [AlbumSong(i) EXCEPT !.title = AlbumSong(1).title]
SameTitleAlbums == {[i \in 1..n |-> SameTitleSong(i)] : n \in 2..MaxSongs}

\* limit is <<>> for None and <<l>> for the number l; --renumber and the backup
\* domains do not interact and are switched on together
AlbumArgs ==
  {a \in [limit : {<<>>} \cup {<<l>> : l \in 0..MaxSongs}, overwrite : BOOLEAN,
           retries : {0, 1}, renumber : BOOLEAN,
           backup_domains : {NoDomains, <<"mirror">>}] :
     a.renumber = (a.backup_domains # NoDomains)}

\* line 423: f"{domain}/song/p/{song.id}.mp3" for each backup domain
song_backup_urls(domains, song) ==
  IF domains = NoDomains \/ domains = <<>> THEN None
  ELSE [i \in 1..Len(domains) |-> <<domains[i], song.id>>]

\* lines 426-437: the arguments download_album passes to download_song
song_config(a, al, song) ==
  [url |-> song.url, song_id |-> song.id, song_title |-> song.title,
   retries |-> a.retries, overwrite |-> a.overwrite, renumber |-> a.renumber,
   total_songs |-> Len(al), backup_urls |-> song_backup_urls(a.backup_domains, song)]

\* line 401: album.songs[:limit] if limit else album.songs
limited(al, limit) ==
  IF limit = <<>> \/ limit = <<0>> THEN al
  ELSE SubSeq(al, 1, IF limit[1] < Len(al) THEN limit[1] ELSE Len(al))

Event(type) ==
  [type |-> type, index |-> 0, total |-> 0, status |-> "", size |-> 0, message |-> "",
   success |-> 0, failed |-> 0, skipped |-> 0]
album_start(total) == [Event("album_start") EXCEPT !.total = total]
song_start(index, total) == [Event("song_start") EXCEPT !.index = index, !.total = total]
\* song_complete that reports every song as downloaded
song_complete_always_success(index, r) ==
  [Event("song_complete") EXCEPT !.index = index, !.status = SUCCESS, !.size = r.size,
                                 !.message = r.message]
song_complete(index, r) ==
  [Event("song_complete") EXCEPT !.index = index, !.status = r.status, !.size = r.size,
                                 !.message = r.message]
album_complete(p, total) ==
  [Event("album_complete") EXCEPT !.success = p.success, !.failed = p.failed,
                                  !.skipped = p.skipped, !.total = total]
\* izanmei.py: raise ValueError("No songs found in HTML"), as str(e) renders it
ExtractError == "No songs found in HTML"
emit_error(message) == [Event("error") EXCEPT !.message = message]

\* update with the else branch taken for FAILED too
update_failed_as_skipped(p, r) ==
  IF r.status = SUCCESS THEN [p EXCEPT !.success = @ + 1]
  ELSE [p EXCEPT !.skipped = @ + 1]
\* DownloadProgress.update
update(p, r) ==
  IF r.status = SUCCESS THEN [p EXCEPT !.success = @ + 1]
  ELSE IF r.status = FAILED THEN [p EXCEPT !.failed = @ + 1]
  ELSE [p EXCEPT !.skipped = @ + 1]

InitAlbumWith(albums) ==
  /\ GuiIdle
  /\ RenumberIdle
  /\ StreamIdle
  /\ PureIdle
  /\ aargs \in AlbumArgs
  /\ album \in albums
  /\ apc = "idle"
  /\ songs = <<>>
  /\ idx = 0
  /\ progress = NoProgress
  /\ events = <<>>
  /\ calls = <<>>
  /\ delays = <<>>
  /\ returned = "none"
  /\ outcomes = <<>>
  /\ exit_code = <<>>
  /\ cfg = song_config(aargs, <<>>, AlbumSong(1))
  /\ \E present \in SUBSET {output_name(song_config(aargs, album, AlbumSong(1)), <<>>)} :
       fs = [p \in present |-> OldContent]
  /\ dir_exists \in BOOLEAN
  /\ DOMAIN fs # {} => dir_exists
  /\ fs0 = fs
  /\ pc = "idle"
  /\ second = FALSE
  /\ all_urls = <<>>
  /\ url_idx = 0
  /\ attempt = 0
  /\ reqs = <<>>
  /\ sleeps = <<>>
  /\ last = NoAttempt
  /\ result = NoResult
  /\ prev = NoResult

InitAlbum == InitAlbumWith(Albums)

\* lines 409-437: song_start is emitted and download_song is called for songs[i]
StartSong(sgs, i, evs) ==
  /\ events' = Append(evs, song_start(i, Len(sgs)))
  /\ idx' = i
  /\ calls' = Append(calls, i)
  /\ cfg' = song_config(aargs, album, sgs[i])
  /\ apc' = "song"
  /\ pc' = "entry"
  /\ fs0' = fs
  /\ all_urls' = <<>>
  /\ url_idx' = 0
  /\ attempt' = 0
  /\ reqs' = <<>>
  /\ sleeps' = <<>>
  /\ last' = NoAttempt
  /\ result' = NoResult
  /\ returned' = "none"

\* the return value ignoring progress.failed
Finish_returns_true(sgs, p, evs) ==
  /\ events' = Append(evs, album_complete(p, Len(sgs)))
  /\ returned' = "True"
  /\ apc' = "done"
  /\ pc' = "idle"
  /\ UNCHANGED <<idx, calls, cfg, fs0, all_urls, url_idx, attempt, reqs, sleeps, last, result>>
\* lines 456-464: the loop is over: album_complete, return progress.failed == 0
Finish(sgs, p, evs) ==
  /\ events' = Append(evs, album_complete(p, Len(sgs)))
  /\ returned' = IF p.failed = 0 THEN "True" ELSE "False"
  /\ apc' = "done"
  /\ pc' = "idle"
  /\ UNCHANGED <<idx, calls, cfg, fs0, all_urls, url_idx, attempt, reqs, sleeps, last, result>>

\* the except branch emitting album_complete before the error marker
Abort_reports_completion(e) ==
  /\ events' = events \o <<album_complete(progress, Len(songs)), emit_error(e)>>
  /\ returned' = "False"
  /\ apc' = "done"
  /\ pc' = "idle"
  /\ UNCHANGED <<idx, calls, cfg, fs0, all_urls, url_idx, attempt, reqs, sleeps, last, result>>
\* lines 466-471: except Exception: the error marker, return False
Abort(e) ==
  /\ events' = Append(events, emit_error(e))
  /\ returned' = "False"
  /\ apc' = "done"
  /\ pc' = "idle"
  /\ UNCHANGED <<idx, calls, cfg, fs0, all_urls, url_idx, attempt, reqs, sleeps, last, result>>

\* lines 371-376: requests.get of the album page raises
AlbumFetchRaises ==
  /\ UNCHANGED <<renumvars, streamvars, purevars, guivars>>
  /\ apc = "idle"
  /\ Abort("RequestException")
  /\ UNCHANGED <<aargs, album, songs, progress, delays, fs, dir_exists, second, prev,
                 outcomes, exit_code>>

\* lines 379-382: no adapter handles the URL
AlbumNoAdapter ==
  /\ UNCHANGED <<renumvars, streamvars, purevars, guivars>>
  /\ apc = "idle"
  /\ returned' = "False"
  /\ apc' = "done"
  /\ UNCHANGED <<aargs, album, songs, idx, progress, events, calls, delays, cfg, pc, second,
                 all_urls, url_idx, attempt, fs, fs0, reqs, sleeps, last, result, prev,
                 dir_exists, outcomes, exit_code>>

\* line 386: adapter.extract_album raises (no songs found in the page)
AlbumExtractRaises ==
  /\ UNCHANGED <<renumvars, streamvars, purevars, guivars>>
  /\ apc = "idle"
  /\ Abort(ExtractError)
  /\ UNCHANGED <<aargs, album, songs, progress, delays, fs, dir_exists, second, prev,
                 outcomes, exit_code>>

\* lines 386-437: the album is resolved; up to the first download_song call, or to
\* the return when there is no song
AlbumResolved ==
  /\ UNCHANGED <<renumvars, streamvars, purevars, guivars>>
  /\ apc = "idle"
  /\ LET sgs == limited(album, aargs.limit)
         evs == Append(events, album_start(Len(album)))
     IN  /\ songs' = sgs
         /\ progress' = [NoProgress EXCEPT !.total = Len(sgs)]
         /\ IF sgs # <<>> THEN StartSong(sgs, 1, evs)
            ELSE Finish(sgs, progress', evs)
  /\ UNCHANGED <<aargs, album, delays, fs, dir_exists, second, prev, outcomes, exit_code>>

\* lines 439-464: download_song returned; up to the next call or to the return
SongReturns ==
  /\ UNCHANGED <<renumvars, streamvars, purevars, guivars>>
  /\ apc = "song"
  /\ pc = "done"
  /\ LET p == update(progress, result)
         evs == Append(events, song_complete(idx, result))
     IN  /\ progress' = p
         /\ outcomes' = Append(outcomes, result.status)
         /\ IF idx < Len(songs)
              THEN /\ delays' = Append(delays, idx)
                   /\ StartSong(songs, idx + 1, evs)
              ELSE /\ Finish(songs, p, evs)
                   /\ UNCHANGED delays
  /\ UNCHANGED <<aargs, album, songs, fs, dir_exists, second, prev, exit_code>>

\* lines 466-471: download_song raised
SongRaises ==
  /\ UNCHANGED <<renumvars, streamvars, purevars, guivars>>
  /\ apc = "song"
  /\ pc = "raised"
  /\ Abort("OSError")
  /\ UNCHANGED <<aargs, album, songs, progress, delays, fs, dir_exists, second, prev,
                 outcomes, exit_code>>

\* main, line 612: sys.exit(0 if success else 1)
MainExits ==
  /\ UNCHANGED <<renumvars, streamvars, purevars, guivars>>
  /\ apc = "done"
  /\ exit_code = <<>>
  /\ exit_code' = IF returned = "True" THEN <<0>> ELSE <<1>>
  /\ UNCHANGED <<apc, aargs, album, songs, idx, progress, events, calls, delays, returned,
                 outcomes, cfg, pc, second, all_urls, url_idx, attempt, fs, fs0, reqs,
                 sleeps, last, result, prev, dir_exists>>

NextAlbum ==
  \/ AlbumFetchRaises
  \/ AlbumNoAdapter
  \/ AlbumExtractRaises
  \/ AlbumResolved
  \/ SongReturns
  \/ SongRaises
  \/ MainExits
  \/ Enter
  \/ EnterMkdirRaises
  \/ Attempt
  \/ InnerLoopEnds
  \/ ReturnUnknownError

SpecAlbum == InitAlbum /\ [][NextAlbum]_vars

\* the same run over an album whose songs share a title
InitTitles == InitAlbumWith(SameTitleAlbums)
SpecTitles == InitTitles /\ [][NextAlbum]_vars

\* CLIWrapper.stop_download: the process running main is terminated while a song is
\* being downloaded; it emits nothing more and download_album never returns
StopDownload ==
  /\ UNCHANGED <<renumvars, streamvars, purevars, guivars>>
  /\ apc = "song"
  /\ pc \in {"entry", "loop"}
  /\ apc' = "stopped"
  /\ pc' = "idle"
  /\ UNCHANGED <<aargs, album, songs, idx, progress, events, calls, delays, returned,
                 outcomes, exit_code, cfg, second, all_urls, url_idx, attempt, fs, fs0,
                 reqs, sleeps, last, result, prev, dir_exists>>

NextStop ==
  \/ NextAlbum
  \/ StopDownload

SpecStop == InitAlbum /\ [][NextStop]_vars

\* ------------------------------------------------------- renumber_directory
Txt == ".txt"

\* the files a directory may hold: marker files, a file that was prefixed before, mp3
\* files without a marker (the second has the two tokens but no digit between them),
\* and a file with a marker that is no mp3 file
DirNames ==
  << <<DI, "1", SHOU, "x", Ext>>,
     <<DI, "1", "2", SHOU, Ext>>,
     <<"1", "_", DI, "1", SHOU, "x", Ext>>,
     <<"x", Ext>>,
     <<DI, SHOU, Ext>>,
     <<DI, "1", SHOU, "x", Txt>> >>

\* the tokens of the names in code point order, for sorted()
CodePoints ==
  <<Ext, Txt, "0", "1", "2", "3", "4", "5", "6", "7", "8", "9", "_", "x", DI, SHOU>>
Rank(t) == CHOOSE k \in 1..Len(CodePoints) : CodePoints[k] = t

\* a < b as Python compares the two strings
RECURSIVE Less(_, _)
Less(a, b) ==
  IF b = <<>> THEN FALSE
  ELSE IF a = <<>> THEN TRUE
  ELSE IF Head(a) = Head(b) THEN Less(Tail(a), Tail(b))
  ELSE Rank(Head(a)) < Rank(Head(b))

RECURSIVE sorted(_)
sorted(S) ==
  IF S = {} THEN <<>>
  ELSE LET least == CHOOSE a \in S : \A b \in S \ {a} : Less(a, b)
       IN  <<least>> \o sorted(S \ {least})

\* directory.glob("*.mp3")
glob_mp3(dir) == {name \in DOMAIN dir : name[Len(name)] = Ext}

\* Path.stem: the name without its last suffix
stem(name) == SubSeq(name, 1, Len(name) - 1)

\* re.search(marker, mp3_file.stem) finds no match
no_match(name) == MarkerPositions(stem(name)) = {}

\* lines 316-318: track_number, old_name, new_name
new_name(name, total_files) ==
  add_track_number_prefix(name, <<MarkerNumber(stem(name))>>, total_files)

\* the directories made of the files of DirNames, each file with a content of its own
Directories ==
  {[name \in {DirNames[k] : k \in present} |-> <<CHOOSE k \in present : DirNames[k] = name>>] :
     present \in SUBSET (1..Len(DirNames))}

InitRenumberWith(dirs) ==
  /\ GuiIdle
  /\ AlbumIdle
  /\ StreamIdle
  /\ PureIdle
  /\ runs = 0
  /\ cfg = song_config(NoArgs, <<>>, AlbumSong(1))
  /\ pc = "idle"
  /\ second = FALSE
  /\ all_urls = <<>>
  /\ url_idx = 0
  /\ attempt = 0
  /\ reqs = <<>>
  /\ sleeps = <<>>
  /\ last = NoAttempt
  /\ result = NoResult
  /\ prev = NoResult
  /\ fs \in dirs
  /\ fs0 = fs
  /\ dir_exists \in BOOLEAN
  /\ DOMAIN fs # {} => dir_exists
  /\ rpc = "idle"
  /\ dry_run \in BOOLEAN
  /\ mp3_files = <<>>
  /\ ridx = 0
  /\ renamed_count = 0
  /\ skipped_count = 0
  /\ rename_errors = <<>>

InitRenumber == InitRenumberWith(Directories)

\* the file the loop is at
mp3_file == mp3_files[ridx]

\* lines 310-340: on to the next file, or to the summary after the last one
NextFile ==
  /\ IF ridx < Len(mp3_files)
       THEN ridx' = ridx + 1 /\ rpc' = "loop"
       ELSE ridx' = ridx /\ rpc' = "done"
  /\ UNCHANGED <<dry_run, mp3_files, runs, albumvars, guivars, streamvars, purevars, cfg, pc, second, all_urls, url_idx, attempt,
                 fs0, reqs, sleeps, last, result, prev, dir_exists>>

\* lines 270-306: the directory is missing or holds no mp3 file: return; otherwise
\* the loop begins (the loop of lines 291-293 changes nothing)
RenumberStart ==
  /\ rpc = "idle"
  /\ mp3_files' = IF dir_exists THEN sorted(glob_mp3(fs)) ELSE <<>>
  /\ IF mp3_files' = <<>>
       THEN rpc' = "done" /\ ridx' = 0
       ELSE rpc' = "loop" /\ ridx' = 1
  /\ runs' = runs + 1
  /\ UNCHANGED <<dry_run, renamed_count, skipped_count, rename_errors, fs, albumvars, guivars,
                 streamvars, purevars, cfg,
                 pc, second, all_urls, url_idx, attempt, fs0, reqs, sleeps, last, result,
                 prev, dir_exists>>

\* the skip branches counting the file as renamed
RenumberSkips_counts_renamed ==
  /\ rpc = "loop"
  /\ \/ no_match(mp3_file)
     \/ ~no_match(mp3_file) /\ new_name(mp3_file, Len(mp3_files)) = mp3_file
  /\ renamed_count' = renamed_count + 1
  /\ NextFile
  /\ UNCHANGED <<skipped_count, rename_errors, fs>>
\* lines 311-314 and 320-323: no marker in the stem, or the new name is the old one
RenumberSkips ==
  /\ rpc = "loop"
  /\ \/ no_match(mp3_file)
     \/ ~no_match(mp3_file) /\ new_name(mp3_file, Len(mp3_files)) = mp3_file
  /\ skipped_count' = skipped_count + 1
  /\ NextFile
  /\ UNCHANGED <<renamed_count, rename_errors, fs>>

\* lines 325-326: dry_run only prints
RenumberDryRun ==
  /\ rpc = "loop"
  /\ ~no_match(mp3_file)
  /\ new_name(mp3_file, Len(mp3_files)) # mp3_file
  /\ dry_run
  /\ NextFile
  /\ UNCHANGED <<renamed_count, skipped_count, rename_errors, fs>>

\* the file with the name old carries the name new; a file that had it is replaced
rename(dir, old, new) ==
  [name \in (DOMAIN dir \ {old}) \cup {new} |-> IF name = new THEN dir[old] ELSE dir[name]]

\* lines 328-332: mp3_file.rename(new_path) succeeds
RenameSucceeds ==
  /\ rpc = "loop"
  /\ ~no_match(mp3_file)
  /\ new_name(mp3_file, Len(mp3_files)) # mp3_file
  /\ ~dry_run
  /\ mp3_file \in DOMAIN fs
  /\ fs' = rename(fs, mp3_file, new_name(mp3_file, Len(mp3_files)))
  /\ renamed_count' = renamed_count + 1
  /\ NextFile
  /\ UNCHANGED <<skipped_count, rename_errors>>

\* lines 333-335: mp3_file.rename raises; the error is logged and the loop goes on
RenameRaises ==
  /\ rpc = "loop"
  /\ ~no_match(mp3_file)
  /\ new_name(mp3_file, Len(mp3_files)) # mp3_file
  /\ ~dry_run
  /\ rename_errors' = Append(rename_errors, mp3_file)
  /\ NextFile
  /\ UNCHANGED <<renamed_count, skipped_count, fs>>

NextRenumber ==
  \/ RenumberStart
  \/ RenumberSkips
  \/ RenumberDryRun
  \/ RenameSucceeds
  \/ RenameRaises

SpecRenumber == InitRenumber /\ [][NextRenumber]_vars

\* main, lines 585-588: --renumber-dir is given again for the same directory
RenumberAgain ==
  /\ rpc = "done"
  /\ runs < MaxRuns
  /\ rpc' = "idle"
  /\ mp3_files' = <<>>
  /\ ridx' = 0
  /\ renamed_count' = 0
  /\ skipped_count' = 0
  /\ UNCHANGED <<dry_run, rename_errors, runs, fs, albumvars, guivars, streamvars, purevars, cfg, pc,
                 second, all_urls, url_idx, attempt, fs0, reqs, sleeps, last, result, prev,
                 dir_exists>>

NextRerun ==
  \/ NextRenumber
  \/ RenumberAgain

SpecRerun == InitRenumber /\ [][NextRerun]_vars

\* a downloaded album: the marker files 1..OneDigitFiles, the most that
\* padding(total_songs) gives one digit, and up to MaxPlain mp3 files without a marker
MarkedName(i) == <<DI>> \o Decimal(i) \o <<SHOU, Ext>>
PlainName(j) == <<"x", DigitChr(j), Ext>>
AlbumDirectories ==
  {[name \in {MarkedName(i) : i \in 1..OneDigitFiles} \cup {PlainName(j) : j \in 1..plain} |->
      IF name \in {PlainName(j) : j \in 1..plain} THEN <<0>> ELSE <<MarkerNumber(name)>>] :
     plain \in 0..MaxPlain}

InitFull == InitRenumberWith(AlbumDirectories)
SpecFull == InitFull /\ [][NextRenumber]_vars

\* a directory that was renumbered when it held ten files or more (01_...) and again
\* when it held fewer (1_01_...), among the other files a directory may hold
TwoDigitName == <<"0", "1", "_", DI, "1", SHOU, Ext>>
StaleNames == {TwoDigitName, <<"1", "_">> \o TwoDigitName}
StaleDirectories ==
  {[name \in DOMAIN dir \cup StaleNames |->
      IF name \in DOMAIN dir THEN dir[name] ELSE <<Len(DirNames) + Len(name)>>] :
     dir \in Directories}

InitStale == InitRenumberWith(StaleDirectories)
SpecStale == InitStale /\ [][NextRenumber]_vars

\* ------------------------------------------- download_song, the body stream
\* download_song is not running and output_dir does not exist
SongIdle ==
  /\ cfg = song_config(NoArgs, <<>>, AlbumSong(1))
  /\ pc = "idle"
  /\ second = FALSE
  /\ all_urls = <<>>
  /\ url_idx = 0
  /\ attempt = 0
  /\ reqs = <<>>
  /\ sleeps = <<>>
  /\ last = NoAttempt
  /\ result = NoResult
  /\ prev = NoResult
  /\ fs = <<>>
  /\ fs0 = <<>>
  /\ dir_exists = FALSE

\* the chunks iter_content yields: up to MaxChunks chunks of up to MaxChunk bytes, an
\* empty chunk among them
ChunkLists == UNION {[1..n -> 0..MaxChunk] : n \in 0..MaxChunks}

\* the values int(content-length) may have
StreamSizes == {-1, 0, 1, 3, 7, 20}

InitStream ==
  /\ GuiIdle
  /\ SongIdle
  /\ AlbumIdle
  /\ RenumberIdle
  /\ PureIdle
  /\ spc = "stream"
  /\ has_callback \in BOOLEAN
  /\ stream_total_size \in StreamSizes
  /\ chunks \in ChunkLists
  /\ downloaded_size = 0
  /\ last_progress = 0
  /\ reported = <<>>

\* line 201: int(downloaded_size / total_size * 100). The quotient and the product
\* are rounded floats: when the exact value is a whole number the float may lie just
\* under it (29 / 100 * 100 is 28.999999999999996) and int() then gives one less.
percent(downloaded, total) ==
  LET exact == (downloaded * 100) \div total
  IN  IF (downloaded * 100) % total = 0 /\ exact >= 1 THEN {exact, exact - 1} ELSE {exact}

\* the callback called for every chunk
should_report_every_chunk(percentage, last_reported) == TRUE
\* line 202: progress - last_progress >= 10
should_report(percentage, last_reported) == percentage - last_reported >= 10

\* lines 194-204: one chunk of the body
ReadChunk ==
  /\ spc = "stream"
  /\ chunks # <<>>
  /\ chunks' = Tail(chunks)
  /\ LET chunk == Head(chunks)
     IN  IF chunk = 0
           THEN UNCHANGED <<downloaded_size, last_progress, reported>>
           ELSE /\ downloaded_size' = downloaded_size + chunk
                /\ IF has_callback /\ stream_total_size > 0
                     THEN \E percentage \in percent(downloaded_size', stream_total_size) :
                            IF should_report(percentage, last_progress)
                              THEN /\ reported' = Append(reported, percentage)
                                   /\ last_progress' = percentage
                              ELSE UNCHANGED <<last_progress, reported>>
                     ELSE UNCHANGED <<last_progress, reported>>
  /\ UNCHANGED <<spc, has_callback, stream_total_size, albumvars, guivars, renumvars, purevars, cfg,
                 pc, second, all_urls, url_idx, attempt, fs, fs0, reqs, sleeps, last, result,
                 prev, dir_exists>>

\* the with block is left: the body is over, or iter_content raised
StreamEnds ==
  /\ spc = "stream"
  /\ spc' = "end"
  /\ UNCHANGED <<has_callback, stream_total_size, chunks, downloaded_size, last_progress,
                 reported, albumvars, guivars, renumvars, purevars, cfg, pc, second, all_urls,
                 url_idx, attempt, fs, fs0, reqs, sleeps, last, result, prev, dir_exists>>

NextStream ==
  \/ ReadChunk
  \/ StreamEnds

SpecStream == InitStream /\ [][NextStream]_vars

\* ---------------------------------------------------------- utils/http.py
\* every string of at most MaxLen characters of S
Strings(S) == UNION {[1..n -> S] : n \in 0..MaxLen}

PrefixArgs ==
  [filename : {<<DI, "7", SHOU, "x", Ext>>, <<"x", Ext>>, <<DI, SHOU, Ext>>,
               <<"x", DI, "1", "5", SHOU, DI, "2", SHOU, Ext>>},
   track_number : {<<>>, <<0>>, <<7>>, <<12>>, <<123>>, <<1000>>},
   total_songs : {1, 9, 10, 50, 99, 100, 150}]

HeaderArgs ==
  [headers : [quoted : {<<>>, <<"h", Ext>>, <<"a", Escaped, "b", Ext>>, <<Mojibake, Ext>>},
              encoded : {<<>>, <<"e", Ext>>, <<Escaped, Mojibake, DI, Ext>>}],
   song_id : {<<>>, <<"7">>},
   song_title : {<<>>, <<DI, "2", SHOU, "?">>, <<" ">>}]

SanitizeArgs == [filename : Strings({"a", " ", "\t", "?", "|"})]

\* lines 168-175 of download_song with what the server and the caller may supply
NameArgs ==
  [header_name : {<<>>, <<"/", "h", "?", Ext>>, <<"h", Ext, " ">>},
   song_id : {<<>>, <<"7">>, <<"7", ":">>},
   song_title : {<<>>, <<DI, "2", SHOU, "?">>, <<" ", "<", "a", ">", " ">>},
   renumber : BOOLEAN, total_songs : {1, 12}]

InitPure ==
  /\ GuiIdle
  /\ SongIdle
  /\ AlbumIdle
  /\ RenumberIdle
  /\ StreamIdle
  /\ \/ fn = "add_track_number_prefix" /\ arg \in PrefixArgs
     \/ fn = "extract_filename_from_headers" /\ arg \in HeaderArgs
     \/ fn = "sanitize_filename" /\ arg \in SanitizeArgs
     \/ fn = "output_name" /\ arg \in NameArgs
  /\ ret = <<>>
  /\ fpc = "idle"

Returns(value) ==
  /\ fpc = "idle"
  /\ ret' = value
  /\ fpc' = "returned"
  /\ UNCHANGED <<fn, arg, albumvars, guivars, renumvars, streamvars, cfg, pc, second, all_urls,
                 url_idx, attempt, fs, fs0, reqs, sleeps, last, result, prev, dir_exists>>

CallAddTrackNumberPrefix ==
  /\ fn = "add_track_number_prefix"
  /\ Returns(add_track_number_prefix(arg.filename, arg.track_number, arg.total_songs))

CallExtractFilename ==
  /\ fn = "extract_filename_from_headers"
  /\ Returns(extract_filename_from_headers(header_filename(arg.headers), arg.song_id,
                                           arg.song_title))

CallSanitizeFilename ==
  /\ fn = "sanitize_filename"
  /\ Returns(sanitize_filename(arg.filename))

CallOutputName ==
  /\ fn = "output_name"
  /\ Returns(output_name(arg, arg.header_name))

NextPure ==
  \/ CallAddTrackNumberPrefix
  \/ CallExtractFilename
  \/ CallSanitizeFilename
  \/ CallOutputName

SpecPure == InitPure /\ [][NextPure]_vars

\* ------------------------------------------------ gui/core/cli_wrapper.py
\* everything but the wrapper and the parser
enginevars == <<cfg, pc, second, all_urls, url_idx, attempt, fs, fs0, reqs, sleeps, last,
                result, prev, dir_exists, albumvars, renumvars, streamvars, purevars>>

EngineIdle == SongIdle /\ AlbumIdle /\ RenumberIdle /\ StreamIdle /\ PureIdle

Urls == {<<>>, <<"ftp", "x">>, <<"http", "x">>}
ExitCodes == {0, 1}

WrapperArgs ==
  [cli_exists : BOOLEAN, url : Urls, progress_callback : BOOLEAN,
   complete_callback : BOOLEAN]

InitWrapper ==
  /\ EngineIdle
  /\ ParserIdle
  /\ wargs \in WrapperArgs
  /\ xpc = "idle"
  /\ tpc = "none"
  /\ current_thread = "None"
  /\ current_process = "None"
  /\ lines_left = 0
  /\ callbacks = <<>>
  /\ wpc = "idle"
  /\ wret = "none"
  /\ timed_out = FALSE

\* url.startswith("http")
startswith_http(url) == url # <<>> /\ url[1] = "http"

\* threading.Thread.is_alive() of the thread that runs run_process
is_alive == tpc \in {"start", "reading", "except", "finally", "exiting"}

Invoke(cb, value) == callbacks' = Append(callbacks, [cb |-> cb, value |-> value])

\* lines 59-112 on the calling thread: validation, then the thread is created,
\* stored and started
ExecuteDownload ==
  /\ xpc = "idle"
  /\ IF ~wargs.cli_exists
       THEN xpc' = "FileNotFoundError" /\ UNCHANGED <<tpc, current_thread>>
       ELSE IF wargs.url = <<>> \/ ~startswith_http(wargs.url)
              THEN xpc' = "ValueError" /\ UNCHANGED <<tpc, current_thread>>
              ELSE /\ current_thread' = "thread"
                   /\ tpc' = "start"
                   /\ xpc' = "returned"
  /\ UNCHANGED <<wargs, current_process, lines_left, callbacks, wpc, wret, timed_out,
                 parservars, enginevars>>

\* lines 74-82: subprocess.Popen returns the process, or raises
ThreadPopen ==
  /\ tpc = "start"
  /\ \/ /\ current_process' = "process"
        /\ lines_left' \in 0..MaxLines
        /\ tpc' = "reading"
     \/ /\ tpc' = "except"
        /\ UNCHANGED <<current_process, lines_left>>
  /\ UNCHANGED <<wargs, xpc, current_thread, callbacks, wpc, wret, timed_out, parservars,
                 enginevars>>

\* lines 85-90: one line of the output; progress_callback, when given, is called with
\* it and may raise
ThreadReadsLine ==
  /\ tpc = "reading"
  /\ lines_left > 0
  /\ lines_left' = lines_left - 1
  /\ IF wargs.progress_callback
       THEN /\ Invoke("progress", lines_left)
            /\ tpc' \in {"reading", "except"}
       ELSE UNCHANGED <<callbacks, tpc>>
  /\ UNCHANGED <<wargs, xpc, current_thread, current_process, wpc, wret, timed_out,
                 parservars, enginevars>>

\* lines 92-97: the output is at its end; wait() gives the exit code and
\* complete_callback, when given, is called with it inside the try block
ThreadWaits ==
  /\ tpc = "reading"
  /\ lines_left = 0
  /\ IF wargs.complete_callback
       THEN /\ \E code \in ExitCodes : Invoke("complete", code)
            /\ tpc' \in {"finally", "except"}
       ELSE tpc' = "finally" /\ UNCHANGED callbacks
  /\ UNCHANGED <<wargs, xpc, current_thread, current_process, lines_left, wpc, wret,
                 timed_out, parservars, enginevars>>

\* lines 99-102: except Exception: complete_callback(-1)
ThreadExcept ==
  /\ tpc = "except"
  /\ IF wargs.complete_callback THEN Invoke("complete", -1) ELSE UNCHANGED callbacks
  /\ tpc' = "finally"
  /\ UNCHANGED <<wargs, xpc, current_thread, current_process, lines_left, wpc, wret,
                 timed_out, parservars, enginevars>>

\* lines 103-105: finally: both fields are cleared
ThreadFinally ==
  /\ tpc = "finally"
  /\ current_process' = "None"
  /\ current_thread' = "None"
  /\ tpc' = "exiting"
  /\ UNCHANGED <<wargs, xpc, lines_left, callbacks, wpc, wret, timed_out, parservars,
                 enginevars>>

\* run_process is over and the thread is no longer alive
ThreadExits ==
  /\ tpc = "exiting"
  /\ tpc' = "ended"
  /\ UNCHANGED <<wargs, xpc, current_thread, current_process, lines_left, callbacks, wpc,
                 wret, timed_out, parservars, enginevars>>

WaiterFrame == UNCHANGED <<wargs, xpc, tpc, current_thread, current_process, lines_left,
                           callbacks, parservars, enginevars>>

\* lines 203-204: if self.current_thread is None: return True
WaitChecks ==
  /\ wpc = "idle"
  /\ IF current_thread = "None"
       THEN wpc' = "returned" /\ wret' = "True"
       ELSE wpc' = "checked" /\ UNCHANGED wret
  /\ UNCHANGED timed_out
  /\ WaiterFrame

\* line 207: self.current_thread is read again and join is called on it; on None the
\* AttributeError goes to except Exception (209-211): return False
WaitJoins ==
  /\ wpc = "checked"
  /\ IF current_thread = "None"
       THEN wpc' = "returned" /\ wret' = "False"
       ELSE wpc' = "joining" /\ UNCHANGED wret
  /\ UNCHANGED timed_out
  /\ WaiterFrame

\* line 207: join returns: the thread is over, or the timeout elapsed first
WaitJoinReturns ==
  /\ wpc = "joining"
  /\ \/ ~is_alive /\ timed_out' = FALSE
     \/ is_alive /\ timed_out' = TRUE
  /\ wpc' = "joined"
  /\ UNCHANGED wret
  /\ WaiterFrame

\* line 208: return not self.current_thread.is_alive(), the field read a third time
WaitReturns ==
  /\ wpc = "joined"
  /\ wret' = IF current_thread = "None" THEN "False"
             ELSE IF is_alive THEN "False" ELSE "True"
  /\ wpc' = "returned"
  /\ UNCHANGED timed_out
  /\ WaiterFrame

NextWrapper ==
  \/ ExecuteDownload
  \/ ThreadPopen
  \/ ThreadReadsLine
  \/ ThreadWaits
  \/ ThreadExcept
  \/ ThreadFinally
  \/ ThreadExits
  \/ WaitChecks
  \/ WaitJoins
  \/ WaitJoinReturns
  \/ WaitReturns

SpecWrapper == InitWrapper /\ [][NextWrapper]_vars

\* ------------------- DownloadProgress.summary and gui/core/output_parser.py
\* A line is its label (the text a pattern of the parser looks for, "" for an empty
\* line, "=" for a rule) and the tokens that follow the label.
Line(label, value) == [label |-> label, value |-> value]

Sec == "<U+79D2>"
SongsPerSec == "<U+9996>/<U+79D2>"
NotAvailable == <<"N", "/", "A">>

\* f"{x:.1f}" and f"{x:.2f}" of x = num / den, den > 0 (rounded down in the last place)
Fixed1(num, den) == Decimal(num \div den) \o <<".", DigitChr(((num * 10) \div den) % 10)>>
Fixed2(num, den) ==
  Decimal(num \div den)
    \o <<".", DigitChr(((num * 10) \div den) % 10), DigitChr(((num * 100) \div den) % 10)>>

\* lines 62-63: speed = self.success / elapsed if elapsed > 0 else 0; speed > 0
speed_positive(p, secs) == secs > 0 /\ p.success > 0

\* lines 60-77: the lines of DownloadProgress.summary(), split at "\n"
summary(p, secs) ==
  << Line("", <<>>),
     Line("=", <<>>),
     Line("Download Summary", <<>>),
     Line("=", <<>>),
     Line("Success", Decimal(p.success)),
     Line("Failed", Decimal(p.failed)),
     Line("Skipped", Decimal(p.skipped)),
     Line("Total", Decimal(p.total)),
     Line("Time", Fixed1(secs, 1) \o <<Sec>>),
     Line("Speed", IF speed_positive(p, secs) THEN Fixed2(p.success, secs) \o <<SongsPerSec>>
                   ELSE NotAvailable),
     Line("=", <<>>) >>

\* what parse_line returns when it is not None
Parsed(type) ==
  [type |-> type, success |-> 0, failed |-> 0, skipped |-> 0, total |-> 0,
   elapsed_time |-> 0, speed |-> 0, index |-> 0, message |-> <<>>, song_count |-> 0]

\* (\d+) at the start of the value: the digits matched, <<>> when there is no match
digits_match(value) == SubSeq(value, 1, DigitRun(value, 1))

\* ([\d.]+)\s+<unit> over the whole value: the text matched, <<>> when no match
number_match(value, unit) ==
  IF /\ Len(value) >= 2
     /\ value[Len(value)] = unit
     /\ \A i \in 1..(Len(value) - 1) : value[i] \in Digits \cup {"."}
    THEN SubSeq(value, 1, Len(value) - 1)
    ELSE <<>>

\* float(text) of a text with one point, in hundredths
float(text) ==
  LET dot == CHOOSE i \in 1..Len(text) : text[i] = "."
      frac == SubSeq(text, dot + 1, Len(text))
  IN  ParseInt(SubSeq(text, 1, dot - 1)) * 100
        + (IF Len(frac) = 1 THEN ParseInt(frac) * 10 ELSE ParseInt(frac))

\* self._summary_data[key] = value
with_key(data, key, value) ==
  [k \in DOMAIN data \cup {key} |-> IF k = key THEN value ELSE data[k]]
\* self._summary_data.get(key, 0)
get(data, key) == IF key \in DOMAIN data THEN data[key] ELSE 0

CounterLabels == {"Success", "Failed", "Skipped", "Total"}
key_of(label) ==
  CASE label = "Success" -> "success"
    [] label = "Failed" -> "failed"
    [] label = "Skipped" -> "skipped"
    [] label = "Total" -> "total"

\* lines 187-197: DownloadSummary(...) from _summary_data
DownloadSummary(data) ==
  [Parsed("DownloadSummary") EXCEPT
     !.success = get(data, "success"), !.failed = get(data, "failed"),
     !.skipped = get(data, "skipped"), !.total = data["total"],
     !.elapsed_time = get(data, "elapsed_time"), !.speed = get(data, "speed")]

\* the DownloadProgress objects, the elapsed times in seconds, and the lines that may
\* follow the summary in the output
Progresses == [total : 0..MaxCount, success : 0..MaxCount, failed : 0..MaxCount,
               skipped : 0..MaxCount]
ElapsedTimes == {0, 1, 3}
LaterLines ==
  { <<>>,
    <<Line("Error", <<"x">>)>>,
    <<Line("Progress", <<"1", "2", "x">>)>>,
    <<Line("Source", <<"x">>), Line("Songs", <<"2">>)>>,
    <<Line("Album", <<"x">>), Line("Songs", <<"x">>)>> }

InitParser ==
  /\ EngineIdle
  /\ WrapperIdle
  /\ dp \in Progresses
  /\ elapsed \in ElapsedTimes
  /\ ppc = "idle"
  /\ feed = <<>>
  /\ ParserReset
  /\ parsed = <<>>

\* print(progress.summary()), then the lines that follow
Summarize ==
  /\ ppc = "idle"
  /\ \E later \in LaterLines : feed' = summary(dp, elapsed) \o later
  /\ ppc' = "feeding"
  /\ UNCHANGED <<dp, elapsed, in_summary, summary_data, current_album, parsed,
                 wrappervars, enginevars>>

Yield(value) == parsed' = Append(parsed, value)

\* lines 174-203: a line read while _in_summary is set
summary_line(line) ==
  IF line.label \in CounterLabels /\ digits_match(line.value) # <<>>
    THEN /\ summary_data' = with_key(summary_data, key_of(line.label),
                                     ParseInt(digits_match(line.value)))
         /\ UNCHANGED <<in_summary, parsed>>
  ELSE IF line.label = "Time" /\ number_match(line.value, Sec) # <<>>
    THEN /\ summary_data' = with_key(summary_data, "elapsed_time",
                                     float(number_match(line.value, Sec)))
         /\ UNCHANGED <<in_summary, parsed>>
  ELSE IF line.label = "Speed" /\ number_match(line.value, SongsPerSec) # <<>>
    THEN /\ summary_data' = with_key(summary_data, "speed",
                                     float(number_match(line.value, SongsPerSec)))
         /\ IF "total" \in DOMAIN summary_data
              THEN Yield(DownloadSummary(summary_data')) /\ in_summary' = FALSE
              ELSE UNCHANGED <<in_summary, parsed>>
  ELSE UNCHANGED <<in_summary, summary_data, parsed>>

\* lines 109-212: parse_line on the next line of the output
ParseLine ==
  /\ ppc = "feeding"
  /\ feed # <<>>
  /\ feed' = Tail(feed)
  /\ LET line == Head(feed) IN
       IF line.label = "" THEN UNCHANGED <<in_summary, summary_data, current_album, parsed>>
       ELSE IF line.label = "Album"
         THEN UNCHANGED <<in_summary, summary_data, current_album, parsed>>
       ELSE IF line.label = "Source"
         THEN /\ current_album' = IF current_album = <<>> THEN <<0>> ELSE current_album
              /\ UNCHANGED <<in_summary, summary_data, parsed>>
       ELSE IF line.label = "Songs" /\ digits_match(line.value) # <<>>
         THEN /\ current_album' = <<ParseInt(digits_match(line.value))>>
              /\ Yield([Parsed("AlbumInfo") EXCEPT !.song_count = current_album'[1]])
              /\ UNCHANGED <<in_summary, summary_data>>
       ELSE IF line.label = "Progress"
         THEN /\ Yield([Parsed("SongProgress") EXCEPT
                          !.index = ParseInt(<<line.value[1]>>),
                          !.total = ParseInt(<<line.value[2]>>)])
              /\ UNCHANGED <<in_summary, summary_data, current_album>>
       ELSE IF line.label = "Download Summary"
         THEN /\ in_summary' = TRUE
              /\ summary_data' = NoSummaryData
              /\ UNCHANGED <<current_album, parsed>>
       ELSE IF in_summary
         THEN summary_line(line) /\ UNCHANGED current_album
       ELSE IF line.label = "Error"
         THEN /\ Yield([Parsed("error") EXCEPT !.message = line.value])
              /\ UNCHANGED <<in_summary, summary_data, current_album>>
       ELSE UNCHANGED <<in_summary, summary_data, current_album, parsed>>
  /\ UNCHANGED <<dp, elapsed, ppc, wrappervars, enginevars>>

NextParser ==
  \/ Summarize
  \/ ParseLine

SpecParser == InitParser /\ [][NextParser]_vars

\* ------------------------------------------------------------------ claims
RequestsTo(u) == {k \in 1..Len(reqs) : reqs[k].u = u}
NonTransportKinds == {"bad_length", "open_failed", "write_failed", "incomplete"}

\* C1: with retries = R >= 1, an empty output directory, a primary URL whose every
\* request fails with a transport error and one backup URL whose request succeeds,
\* download_song returns SUCCESS, the file holds the bytes of the backup response,
\* and exactly R requests went to the primary, all before the one to the backup.
C1_FailoverToBackup ==
  (/\ pc = "done"
   /\ cfg.retries >= 1
   /\ Len(all_urls) = 2
   /\ DOMAIN fs0 = {}
   /\ last.u = 1 /\ last.a = 0
   /\ last.kind \in {"complete", "skipped"})
  => /\ result.status = SUCCESS
     /\ result.path \in DOMAIN fs
     /\ fs[result.path] = Body(1, last.n)
     /\ reqs = [k \in 1..(cfg.retries + 1) |->
                  IF k <= cfg.retries
                    THEN [u |-> 0, a |-> k - 1, transport_error |-> TRUE]
                    ELSE [u |-> 1, a |-> 0, transport_error |-> FALSE]]

\* C2: an attempt whose body length differs from the declared Content-Length is
\* handled like a transport failure: the partial file is deleted, and the call
\* returns (FAILED) only if that was the last attempt on the last URL.
C2_IncompleteIsRetried ==
  last.kind = "incomplete"
  => /\ last.path \notin DOMAIN fs
     /\ pc = "done" => /\ result.status = FAILED
                       /\ last.a = cfg.retries - 1
                       /\ last.u = Len(all_urls) - 1

\* C3: a call of download_song never lets an exception escape and, once it has
\* ended, has returned exactly one result, whose status is SUCCESS, SKIPPED or FAILED.
C3_AlwaysOneResult ==
  /\ pc # "raised"
  /\ pc = "done" => result.status \in {SUCCESS, SKIPPED, FAILED}
  /\ pc # "done" => result = NoResult

\* C4: the requests follow the list [primary] ++ backups: URL i+1 is requested only
\* after exactly `retries` failed attempts on URL i, no URL is requested more than
\* `retries` times, none is revisited, and there are at most |urls| x retries requests.
C4_UrlOrder ==
  /\ pc \in {"loop", "done"} =>
       /\ all_urls[1] = cfg.url
       /\ cfg.backup_urls # None => all_urls = <<cfg.url>> \o cfg.backup_urls
  /\ \A k \in 1..Len(reqs) : reqs[k].u \in 0..(Len(all_urls) - 1)
  /\ \A j, k \in 1..Len(reqs) : j < k => reqs[j].u <= reqs[k].u
  /\ \A u \in 0..(Len(all_urls) - 1) : Cardinality(RequestsTo(u)) <= cfg.retries
  /\ \A k \in 1..Len(reqs) : \A v \in 0..(reqs[k].u - 1) :
       Cardinality({j \in 1..(k - 1) : reqs[j].u = v /\ reqs[j].transport_error})
         = cfg.retries
  /\ Len(reqs) <= Len(all_urls) * cfg.retries

C4_Witness ==
  /\ pc = "done"
  /\ Len(all_urls) >= 2
  /\ cfg.retries >= 2
  /\ Len(reqs) = Len(all_urls) * cfg.retries

\* C5: an attempt that raises an exception other than a RequestException ends the
\* call with FAILED at once: it is the last request, and no sleep follows it.
C5_FailFast ==
  last.kind \in NonTransportKinds
  => /\ pc = "done"
     /\ result.status = FAILED
     /\ reqs[Len(reqs)] = [u |-> last.u, a |-> last.a, transport_error |-> FALSE]
     /\ \A i \in 1..Len(sleeps) : ~(sleeps[i].u = last.u /\ sleeps[i].a = last.a)

C5_Witness ==
  /\ pc = "done"
  /\ last.kind = "incomplete"
  /\ last.u = 0 /\ last.a = 0
  /\ cfg.retries >= 2
  /\ Len(all_urls) >= 2

SleepsAfter(r) == r.transport_error /\ r.a < cfg.retries - 1
ExpectedSleeps ==
  LET followed == SelectSeq(reqs, SleepsAfter)
  IN  [i \in 1..Len(followed) |->
         [u |-> followed[i].u, a |-> followed[i].a, secs |-> 2 ^ followed[i].a]]

\* C6: download_song sleeps 2^a seconds after failed attempt a on a URL exactly when
\* a < retries - 1, never after the last attempt on a URL, and the attempt counter
\* restarts at 0 for every URL.
C6_Backoff ==
  /\ sleeps = ExpectedSleeps
  /\ \A k \in 1..Len(reqs) :
       reqs[k].a = Cardinality({j \in 1..(k - 1) : reqs[j].u = reqs[k].u})

C6_Witness ==
  /\ pc = "done"
  /\ result.status = FAILED
  /\ Len(all_urls) = 2
  /\ Len(sleeps) = 4
  /\ sleeps[2].secs = 2 /\ sleeps[3].secs = 1

\* C7: when a request is answered, the computed output path exists and overwrite is
\* false, the call ends at once with SKIPPED and that path and the directory is left
\* as it was; so a second call after a SUCCESS that computes the same path is SKIPPED.
C7_SkipExisting ==
  /\ [][(/\ reqs' # reqs
         /\ last'.path # NoPath
         /\ last'.path \in DOMAIN fs
         /\ ~cfg.overwrite)
        => /\ last'.kind = "skipped"
           /\ pc' = "done"
           /\ result'.status = SKIPPED
           /\ result'.path = last'.path
           /\ fs' = fs]_vars
  /\ []((/\ second /\ pc = "done"
         /\ prev.status = SUCCESS
         /\ last.path = prev.path)
        => /\ result.status = SKIPPED
           /\ result.path = prev.path
           /\ fs[prev.path] = fs0[prev.path])

C7_Witness ==
  /\ second /\ pc = "done"
  /\ prev.status = SUCCESS
  /\ result.status = SKIPPED
  /\ result.path = prev.path
  /\ Len(reqs) >= 2

\* C8 as stated: with overwrite = false and a file present at the computed output
\* path, download_song returns SKIPPED and writes nothing whatever the network does.
C8_SkippedWhateverTheNetwork ==
  (/\ pc = "done"
   /\ ~cfg.overwrite
   /\ CandidateNames(cfg) \subseteq DOMAIN fs0)
  => /\ result.status = SKIPPED
     /\ fs = fs0

\* C8 amended: with overwrite = false and a file present at the computed output
\* path, download_song writes nothing; it returns SKIPPED when one of its requests
\* is answered and FAILED when every request it made failed (or it made none).
C8_SkippedOnceAnswered ==
  (/\ pc = "done"
   /\ ~cfg.overwrite
   /\ CandidateNames(cfg) \subseteq DOMAIN fs0)
  => /\ fs = fs0
     /\ result.status =
          (IF \E k \in 1..Len(reqs) : ~reqs[k].transport_error THEN SKIPPED ELSE FAILED)

C8_Witness ==
  /\ pc = "done"
  /\ ~cfg.overwrite
  /\ CandidateNames(cfg) \subseteq DOMAIN fs0
  /\ result.status = FAILED
  /\ Len(all_urls) = 2
  /\ Len(reqs) = 2 * cfg.retries
  /\ cfg.retries >= 2

\* C9: when download_song returns SUCCESS the file at the returned path exists and
\* holds exactly result.size bytes, all from the response of the successful attempt,
\* and result.size is the declared Content-Length when one greater than 0 was declared.
C9_SuccessIsComplete ==
  (pc = "done" /\ result.status = SUCCESS)
  => /\ result.path \in DOMAIN fs
     /\ Len(fs[result.path]) = result.size
     /\ fs[result.path] = Body(last.u, result.size)
     /\ (last.cl.kind = "int" /\ last.cl.val > 0) => result.size = last.cl.val

C9_Witness ==
  /\ pc = "done"
  /\ result.status = SUCCESS
  /\ cfg.overwrite
  /\ result.path \in DOMAIN fs0
  /\ last.u = 1
  /\ last.cl.kind = "int"
  /\ result.size >= 1

\* C10: once download_album has resolved the album, it calls download_song exactly
\* once for each song of the limited song list, in list order, whatever happened to
\* the earlier songs: when the run is over every song of the list has been attempted.
C10_EverySongAttempted ==
  /\ \A k \in 1..Len(calls) : calls[k] = k
  /\ (apc = "done" /\ events # <<>> /\ events[1].type = "album_start")
       => calls = [k \in 1..Len(limited(album, aargs.limit)) |-> k]

\* what download_album emitted, by type
EventTypes == {events[k].type : k \in 1..Len(events)}
LastEvent == events[Len(events)]
Completed == apc = "done" /\ events # <<>> /\ LastEvent.type = "album_complete"

\* C11: once download_album has resolved a non-empty collection, no fault that arises
\* while a song is processed aborts the batch: every remaining song is attempted and
\* the run ends with album_complete, not with an error event; an error event is only
\* ever emitted before the first song is attempted.
C11_NoSongFaultAborts ==
  (apc = "done" /\ calls # <<>>)
  => /\ LastEvent.type = "album_complete"
     /\ "error" \notin EventTypes
     /\ Len(calls) = Len(songs)

\* C12: with a limit L >= 0 and an album of n songs, download_album attempts exactly
\* the first min(L, n) songs, in album order; without a limit it attempts all n songs
\* (stated for the runs that end with album_complete).
C12_LimitIsPrefix ==
  Completed
  => LET n == Len(album)
         k == IF aargs.limit = <<>> THEN n
              ELSE IF aargs.limit[1] < n THEN aargs.limit[1] ELSE n
     IN  /\ songs = SubSeq(album, 1, k)
         /\ calls = [i \in 1..k |-> i]

\* C13: the events of a run that completed are album_start, then for i = 1..k in
\* increasing order song_start(i) directly followed by song_complete(i), which carries
\* the status that song's download_song call returned, then album_complete; and at no
\* point of any run is an event of song i+1 emitted before song_complete(i).
C13_EventOrder ==
  /\ \A j \in 1..Len(events) :
       (events[j].type \in {"song_start", "song_complete"} /\ events[j].index > 1)
       => \E h \in 1..(j - 1) : /\ events[h].type = "song_complete"
                                /\ events[h].index = events[j].index - 1
  /\ Completed
     => LET k == Len(songs)
        IN  /\ Len(events) = 2 * k + 2
            /\ events[1].type = "album_start"
            /\ \A i \in 1..k :
                 /\ events[2 * i].type = "song_start"
                 /\ events[2 * i].index = i
                 /\ events[2 * i + 1].type = "song_complete"
                 /\ events[2 * i + 1].index = i
                 /\ events[2 * i + 1].status = outcomes[i]

C13_Witness ==
  /\ Completed
  /\ Len(songs) = 2
  /\ outcomes = <<FAILED, SUCCESS>>

\* the number of results with status st that download_song returned
Count(st) == Cardinality({i \in 1..Len(outcomes) : outcomes[i] = st})

\* C14: at every point of a download_album run success + failed + skipped is the number
\* of download_song calls that returned, each outcome having incremented exactly its
\* own counter; no counter is ever decremented; and album_complete carries counters
\* whose sum is its total.
C14_CountersAddUp ==
  /\ [](/\ progress.success = Count(SUCCESS)
        /\ progress.failed = Count(FAILED)
        /\ progress.skipped = Count(SKIPPED)
        /\ progress.success + progress.failed + progress.skipped = Len(outcomes)
        /\ Completed => /\ LastEvent.success + LastEvent.failed + LastEvent.skipped
                             = LastEvent.total
                        /\ LastEvent.total = Len(outcomes))
  /\ [][/\ progress'.success >= progress.success
        /\ progress'.failed >= progress.failed
        /\ progress'.skipped >= progress.skipped]_vars

C14_Witness ==
  /\ Completed
  /\ outcomes = <<SKIPPED, FAILED>>
  /\ progress.skipped = 1
  /\ progress.failed = 1

\* C15: download_album returns True exactly when the batch ran to its end and no song
\* FAILED (SKIPPED and SUCCESS both count as non-failures), and the process exits with
\* status 0 exactly when download_album returned True.
C15_ReturnAndExit ==
  /\ apc = "done"
     => (returned = "True"
          <=> (/\ Len(outcomes) = Len(limited(album, aargs.limit))
               /\ Count(FAILED) = 0
               /\ "error" \notin EventTypes
               /\ events # <<>>))
  /\ exit_code # <<>> => (exit_code = <<0>> <=> returned = "True")

C15_Witness ==
  /\ exit_code = <<0>>
  /\ outcomes = <<SKIPPED, SUCCESS>>


\* C16: when the adapter's extract_album raises, download_album emits one error event
\* and no other event, never calls download_song, leaves the output directory as it
\* was, and returns False.
C16_ExtractFailureAborts ==
  (apc = "done" /\ events # <<>> /\ LastEvent.message = ExtractError)
  => /\ events = <<emit_error(ExtractError)>>
     /\ calls = <<>>
     /\ fs = fs0
     /\ pc = "idle"
     /\ returned = "False"

C16_Witness ==
  /\ apc = "done"
  /\ events = <<emit_error(ExtractError)>>
  /\ album # <<>>
  /\ exit_code = <<1>>

\* C17: an adapter that returns an album with an empty song list is treated like one
\* that raises: no album_start and no album_complete event is emitted and
\* download_album returns False.
C17_EmptyAlbumIsAnError ==
  (apc = "done" /\ album = <<>>)
  => /\ returned = "False"
     /\ "album_start" \notin EventTypes
     /\ "album_complete" \notin EventTypes

\* C18: when the download is stopped in the middle of a batch, the outcomes recorded
\* for the completed songs are kept, the song in progress is recorded as FAILED (a
\* song_complete event with status failed is emitted for it), and no further song is
\* attempted.
C18_StopRecordsFailure ==
  apc = "stopped"
  => /\ Len(outcomes) = idx - 1
     /\ Len(calls) = idx
     /\ LastEvent.type = "song_complete"
     /\ LastEvent.index = idx
     /\ LastEvent.status = FAILED

\* the name download_song gives the file of song j of the running batch
song_path(j) == output_name(song_config(aargs, album, songs[j]), <<>>)

\* C19: within one batch songs with distinct ids are written to distinct paths: the
\* path download_song used for a song is the path of no earlier song of the batch,
\* so no song is SKIPPED for, or overwrites, the file of another.
C19_DistinctPaths ==
  (apc = "song" /\ pc = "done" /\ result.path # NoPath)
  => \A j \in 1..(idx - 1) : songs[j].id # songs[idx].id => result.path # song_path(j)

\* the files of the directory as renumber_directory found it
MarkerFiles == {name \in glob_mp3(fs0) : ~no_match(name)}
PlainFiles == glob_mp3(fs0) \ MarkerFiles
OtherFiles == DOMAIN fs0 \ glob_mp3(fs0)

\* <ordinal prefix>_<old name>, for the widths an ordinal prefix can have
Prefixed(name) ==
  {ZeroPad(Decimal(MarkerNumber(stem(name))), w) \o <<"_">> \o name : w \in 1..3}

\* the content the file name had is found under a prefixed name
Renamed(name) == \E new \in Prefixed(name) : new \in DOMAIN fs /\ fs[new] = fs0[name]
Untouched(name) == name \in DOMAIN fs /\ fs[name] = fs0[name]
Refused(name) == \E k \in 1..Len(rename_errors) : rename_errors[k] = name

C21_WidthFromMarkerFiles ==
  (rpc = "done" /\ ~dry_run)
  => \A name \in MarkerFiles :
       ~Refused(name)
       => LET new == add_track_number_prefix(name, <<MarkerNumber(stem(name))>>,
                                             Cardinality(MarkerFiles))
          IN  new \in DOMAIN fs /\ fs[new] = fs0[name]

\* the name of a marker file after k runs that each prepend the prefix of the run
RECURSIVE Stacked(_, _, _)
Stacked(name, k, total_files) ==
  IF k = 0 THEN name
  ELSE ZeroPad(Decimal(MarkerNumber(stem(name))), padding(total_files)) \o <<"_">>
         \o Stacked(name, k - 1, total_files)

Received(name) ==
  LET new == new_name(name, Len(mp3_files))
  IN  new \in DOMAIN fs /\ fs[new] = fs0[name]

\* C24: for the files of one directory that received an ordinal prefix, the
\* lexicographic order of the new names is the numeric order of the track numbers.
C24_SortOrderIsTrackOrder ==
  (rpc = "done" /\ ~dry_run)
  => \A a, b \in MarkerFiles :
       (/\ Received(a)
        /\ Received(b)
        /\ MarkerNumber(stem(a)) < MarkerNumber(stem(b)))
       => Less(new_name(a, Len(mp3_files)), new_name(b, Len(mp3_files)))

Returned(f) == fn = f /\ fpc = "returned"

\* C23: add_track_number_prefix(name, n, total) returns n in decimal, zero-padded to
\* the width 1 if total < 10, 2 if total < 100 and 3 otherwise and never truncated,
\* then "_", then name; n not supplied is the numeral of the first marker of name, and
\* without a marker name is returned unchanged.
C23_PrefixFormat ==
  Returned("add_track_number_prefix")
  => LET name == arg.filename
         width == IF arg.total_songs < 10 THEN 1 ELSE IF arg.total_songs < 100 THEN 2 ELSE 3
         k == Len(ret) - Len(name) - 1
     IN  IF arg.track_number = <<>> /\ MarkerPositions(name) = {}
           THEN ret = name
           ELSE /\ k >= width
                /\ SubSeq(ret, k + 2, Len(ret)) = name
                /\ ret[k + 1] = "_"
                /\ \A i \in 1..k : ret[i] \in Digits
                /\ k > width => ret[1] # "0"
                /\ ParseInt(SubSeq(ret, 1, k))
                     = (IF arg.track_number # <<>> THEN arg.track_number[1]
                        ELSE MarkerNumber(name))

C23_Witness ==
  /\ Returned("add_track_number_prefix")
  /\ arg.track_number = <<>>
  /\ arg.total_songs = 150
  /\ ret = <<"0", "1", "5", "_", "x", DI, "1", "5", SHOU, DI, "2", SHOU, Ext>>

\* the name a form of the header holds: percent escapes decoded, mojibake repaired
Decoded(form) == fix_mojibake(unquote(form))

\* C25: extract_filename_from_headers returns sanitize(title) + ".mp3" when a title
\* is supplied, whatever the headers and the id; otherwise the file name of the
\* Content-Disposition header, the quoted form before the RFC 5987 form; otherwise
\* id + ".mp3" when the id is not empty; otherwise "unknown.mp3".
C25_NamePriority ==
  Returned("extract_filename_from_headers")
  => ret = (IF arg.song_title # <<>> THEN sanitize_filename(arg.song_title) \o <<Ext>>
            ELSE IF arg.headers.quoted # <<>> THEN Decoded(arg.headers.quoted)
            ELSE IF arg.headers.encoded # <<>> THEN Decoded(arg.headers.encoded)
            ELSE IF arg.song_id # <<>> THEN arg.song_id \o <<Ext>>
            ELSE <<"unknown", Ext>>)

C25_Witness ==
  /\ Returned("extract_filename_from_headers")
  /\ arg.song_title = <<>>
  /\ arg.song_id # <<>>
  /\ arg.headers.quoted = <<"a", Escaped, "b", Ext>>
  /\ arg.headers.encoded # <<>>
  /\ ret = <<"a", " ", "b", Ext>>

Reserved == {"\\", "/", ":", "*", "?", "\"", "<", ">", "|"}
Blank == {" ", "\t", "\n"}

\* C26: the output of sanitize_filename holds no reserved character and no leading
\* or trailing whitespace, and keeps every other character of the input unchanged and
\* in order; the file name download_song writes under holds no reserved character.
C26_SanitizedNames ==
  /\ Returned("sanitize_filename")
     => LET x == arg.filename
        IN  /\ \A i \in 1..Len(ret) : ret[i] \notin Reserved
            /\ ret # <<>> => ret[1] \notin Blank /\ ret[Len(ret)] \notin Blank
            /\ \E i \in 1..(Len(x) + 1) : \E j \in (i - 1)..Len(x) :
                 /\ Len(ret) = j - i + 1
                 /\ \A k \in 1..(i - 1) : x[k] \in Blank
                 /\ \A k \in (j + 1)..Len(x) : x[k] \in Blank
                 /\ \A k \in i..j : x[k] \notin Reserved => ret[k - i + 1] = x[k]
  /\ Returned("output_name") => \A i \in 1..Len(ret) : ret[i] \notin Reserved

C26_Witness ==
  /\ Returned("sanitize_filename")
  /\ arg.filename = <<" ", "|", "a">>
  /\ ret = <<"_", "a">>

\* C27: sanitize_filename(sanitize_filename(x)) = sanitize_filename(x) for every
\* string x.
C27_SanitizeIdempotent ==
  Returned("sanitize_filename") => sanitize_filename(ret) = ret

C27_Witness ==
  /\ Returned("sanitize_filename")
  /\ arg.filename = <<"?", " ", "\t">>
  /\ ret = <<"_">>
  /\ sanitize_filename(ret) = ret

\* C28: within one attempt the percent callback is called only when a positive
\* Content-Length was declared; the first value reported is at least 10 and every
\* later one is at least 10 above the one before, so the values strictly increase.
C28_ProgressSteps ==
  /\ reported # <<>> => stream_total_size > 0 /\ has_callback
  /\ reported # <<>> => reported[1] >= 10
  /\ \A i \in 1..(Len(reported) - 1) : reported[i + 1] >= reported[i] + 10

C28_Witness ==
  /\ spc = "end"
  /\ chunks = <<>>
  /\ stream_total_size = 7
  /\ downloaded_size = 7
  /\ Len(reported) = 3
  /\ reported[3] \in {99, 100}

\* C29: download_song returns SKIPPED only if the output file existed before the call
\* began; a file an earlier attempt of the same call left behind never makes a retry
\* or a backup URL return SKIPPED.
C29_SkippedOnlyIfPreexisting ==
  (pc = "done" /\ result.status = SKIPPED) => result.path \in DOMAIN fs0

\* C30: when download_song returns FAILED no file the call created or truncated
\* remains: every file of output_dir was there before the call, with the same content.
C30_FailedLeavesNoFile ==
  (pc = "done" /\ result.status = FAILED)
  => \A path \in DOMAIN fs : path \in DOMAIN fs0 /\ fs[path] = fs0[path]

\* C31: a download_song call that ends in FAILED leaves every file that existed
\* before the call in place with the same content, also when overwrite is true.
C31_FailedKeepsOldFile ==
  (pc = "done" /\ result.status = FAILED)
  => \A path \in DOMAIN fs0 : path \in DOMAIN fs /\ fs[path] = fs0[path]

\* C32: for every retries >= 0 download_song sends at least one request to the
\* primary URL before it returns FAILED.
C32_RequestBeforeFailed ==
  (pc = "done" /\ result.status = FAILED) => RequestsTo(0) # {}

TotalEvents == {"album_start", "song_start", "album_complete"}

\* C33: the total of the album_start event of a run is the total of every song_start
\* event and of the album_complete event of that run, also when a limit is applied.
C33_OneTotal ==
  \A i, j \in 1..Len(events) :
    (events[i].type \in TotalEvents /\ events[j].type \in TotalEvents)
    => events[i].total = events[j].total

TerminalEvents == {"album_complete", "error"}

\* C34: a download_album run that has returned emitted exactly one terminal event,
\* album_complete or error, as its last event; a run that returned False without
\* album_complete emitted an error event.
C34_OneTerminalEvent ==
  returned # "none"
  => /\ events # <<>>
     /\ events[Len(events)].type \in TerminalEvents
     /\ \A i \in 1..(Len(events) - 1) : events[i].type \notin TerminalEvents


Contents(dir) == {dir[name] : name \in DOMAIN dir}

\* C35: renumber_directory preserves the files of the directory: the number of files
\* and their contents are the same before and after the run, a renamed file keeps its
\* content, and a rename never replaces another existing file.
C35_FilesPreserved ==
  /\ Cardinality(DOMAIN fs) = Cardinality(DOMAIN fs0)
  /\ Contents(fs) = Contents(fs0)

\* C36: wait_for_completion returns True whenever the download finishes within the
\* timeout and whenever no download is running; it returns False only if the timeout
\* elapsed while the download was still running.
C36_WaitResult ==
  wpc = "returned" => (wret = "False" => timed_out)

Completions == {k \in 1..Len(callbacks) : callbacks[k].cb = "complete"}

\* C37: for a call that passes validation complete_callback is invoked exactly once,
\* with the exit code or with -1, after every progress_callback invocation; a call
\* that fails validation starts no thread and invokes no callback.
C37_CompleteOnce ==
  /\ (tpc = "ended" /\ wargs.complete_callback)
     => /\ Cardinality(Completions) = 1
        /\ callbacks[Len(callbacks)].cb = "complete"
        /\ callbacks[Len(callbacks)].value \in ExitCodes \cup {-1}
  /\ Cardinality(Completions) <= 1
  /\ xpc \in {"FileNotFoundError", "ValueError"}
     => tpc = "none" /\ current_thread = "None" /\ callbacks = <<>>

Summaries == {k \in 1..Len(parsed) : parsed[k].type = "DownloadSummary"}

\* C38: the lines of DownloadProgress.summary(), given in order to a reset
\* OutputParser, yield exactly one DownloadSummary whose success, failed, skipped and
\* total are the counters of the DownloadProgress, whatever the counters are, and the
\* parser is outside summary mode afterwards.
C38_SummaryRoundTrip ==
  (ppc = "feeding" /\ feed = <<>>)
  => /\ Cardinality(Summaries) = 1
     /\ \A k \in Summaries :
          /\ parsed[k].success = dp.success
          /\ parsed[k].failed = dp.failed
          /\ parsed[k].skipped = dp.skipped
          /\ parsed[k].total = dp.total
     /\ ~in_summary
====
